---- MODULE Spec2Model ----
(***************************************************************************)
(* Model of the quiz engine of the ML quiz application:                    *)
(*   utils/quizLogic.js      session state functions                       *)
(*   utils/scoringUtils.js   answer validation and scoring                 *)
(*   utils/shuffleUtils.js   Fisher-Yates shuffle and mode preparation     *)
(*   components/QuizInterface.js, components/QuestionCard.js               *)
(*                           the handlers that drive the session           *)
(*   app/quiz/[assignment]/[mode]/page.js   question loading               *)
(*                                                                         *)
(* Arrays are 0-based in the source and 1-based here: element k of a JS    *)
(* array is element k + 1 of the sequence.  currentQuestionIndex and       *)
(* questionIndex keep their 0-based values.                                *)
(***************************************************************************)
EXTENDS Integers, Sequences, FiniteSets, Bags, TLC

VARIABLES
    mode,            \* route parameter / QuizInterface prop `mode`
    questions,       \* QuizPage state `questions` (prop of QuizInterface)
    quizState,       \* QuizInterface state `quizState`
    completionData,  \* QuizInterface state `completionData`
    now,             \* the wall clock read by `new Date()`, in ms
    draws,           \* number of Math.random() calls made so far
    args,            \* arguments of the library function under call
    result           \* value returned by the library function under call

vars == <<mode, questions, quizState, completionData, now, draws, args, result>>

(***************************************************************************)
(* Bounds                                                                  *)
(***************************************************************************)
NumQuestions == 2      \* questions of the assignment loaded by the page
MaxClock == 1          \* clock ticks the model lets pass
MaxOptions == 3        \* options per question in the validator inputs
MaxLen == 3            \* length of the arrays given to shuffleArray
MaxScoreQuestions == 2 \* questions in the scoring inputs
MaxTotal == 40         \* questions in the percentage inputs
MaxPrepareQuestions == 2 \* questions given to prepareQuestionsForMode
MaxOvershoot == 1
MaxCalls == 2      \* library calls to navigateToNextQuestion past the end

(***************************************************************************)
(* Values                                                                  *)
(***************************************************************************)
Null == [null |-> TRUE]          \* JS null / undefined, where an object is expected
NoQuestions == <<>>              \* QuizPage `questions` before the load (null)
NoMode == "none"                 \* no quiz route is open
NullTime == 0 - 1                \* endTime: null
TickMs == 500                    \* granularity of the modelled clock

Modes == {"learn", "test-easy", "test-difficult"}

OptionIds == <<"A", "B", "C", "D", "E">>

\* UTF-16 code unit of a one-letter option number; Array.prototype.sort()
\* without a comparator orders strings by code units.
CharCode(s) ==
    CASE s = "A" -> 65 [] s = "B" -> 66 [] s = "C" -> 67
      [] s = "D" -> 68 [] s = "E" -> 69

Range(s) == {s[k] : k \in DOMAIN s}

SeqToBag(s) == [e \in Range(s) |-> Cardinality({k \in DOMAIN s : s[k] = e})]

\* Sequences over S of length at most n
SeqsUpTo(S, n) == UNION {[1..k -> S] : k \in 0..n}

\* Duplicate-free sequences over S of length at most n
DistinctSeqs(S, n) ==
    {s \in SeqsUpTo(S, n) : \A a, b \in DOMAIN s : a # b => s[a] # s[b]}

\* arr[index], undefined when out of range
At(arr, index) ==
    IF index + 1 \in DOMAIN arr THEN arr[index + 1] ELSE Null

Option(id, correct) == [optionnumber |-> id, iscorrect |-> correct]

Question(num, opts) == [questionnumber |-> num, options |-> opts]

(***************************************************************************)
(* utils/shuffleUtils.js                                                   *)
(***************************************************************************)

\* every draw ranges over the whole array
DrawSeqsNaive(n) ==
    IF n <= 1 THEN {<<>>}
    ELSE [1..(n - 1) -> 0..(n - 1)]

\* The draws of one shuffleArray call on an array of length n: draw k is
\* j = Math.floor(Math.random() * (i + 1)) for i = n - k, a value in 0..i.
DrawSeqs(n) ==
    IF n <= 1 THEN {<<>>}
    ELSE {js \in [1..(n - 1) -> 0..(n - 1)] : \A k \in 1..(n - 1) : js[k] <= n - k}

\* a swap that loses the element at a
SwapOverwrite(s, a, b) == [s EXCEPT ![a] = s[b]]

Swap(s, a, b) == [s EXCEPT ![a] = s[b], ![b] = s[a]]

\* The loop of shuffleArray: iteration k works on i = Len(shuffled) - k.
RECURSIVE ShuffleLoop(_, _, _)
ShuffleLoop(shuffled, js, k) ==
    IF k > Len(js) THEN shuffled
    ELSE ShuffleLoop(Swap(shuffled, (Len(shuffled) - k) + 1, js[k] + 1), js, k + 1)

\* the loop runs on the argument itself, without the copy
shuffleArrayInPlace(array, js) ==
    [array |-> ShuffleLoop(array, js, 1), shuffled |-> ShuffleLoop(array, js, 1)]

\* shuffleArray(array) under the draws js.  `array` is the argument as the
\* call leaves it, `shuffled` the returned array.
shuffleArray(array, js) ==
    [array |-> array, shuffled |-> ShuffleLoop(array, js, 1)]

shuffleQuestions(qs, js) == shuffleArray(qs, js).shuffled

shuffleQuestionOptions(question, js) ==
    [question EXCEPT !.options = shuffleArray(question.options, js).shuffled]

\* The draws of one prepareQuestionsForMode call: those of the question
\* shuffle, then those of each option shuffle in the new question order.
PrepareDraws(qs, m) ==
    IF m = "test-difficult"
    THEN {d \in [q : DrawSeqs(Len(qs)), o : [1..Len(qs) -> UNION {DrawSeqs(Len(qs[k].options)) : k \in 1..Len(qs)}]] :
            \A k \in 1..Len(qs) :
                d.o[k] \in DrawSeqs(Len(shuffleQuestions(qs, d.q)[k].options))}
    ELSE {[q |-> <<>>, o |-> <<>>]}

RECURSIVE SumLen(_)
SumLen(ss) == IF ss = <<>> THEN 0 ELSE Len(Head(ss)) + SumLen(Tail(ss))

DrawCount(d) == Len(d.q) + SumLen(d.o)

\* the argument itself is handed on, without the copy
SpreadAlias(array) == [ref |-> "argument", elements |-> array]

\* [...questions]: a new array object with the elements of the argument
SpreadCopy(array) == [ref |-> "copy", elements |-> array]

\* The array object prepareQuestionsForMode returns: the copy of its first
\* line, or in test-difficult mode the array built by map.
prepareQuestionsForModeRef(qs, m) ==
    IF m = "test-difficult" THEN "mapped" ELSE SpreadCopy(qs).ref

prepareQuestionsForMode(qs, m, d) ==
    IF m = "test-difficult"
    THEN LET processedQuestions == shuffleQuestions(qs, d.q)
         IN  [k \in 1..Len(qs) |-> shuffleQuestionOptions(processedQuestions[k], d.o[k])]
    ELSE qs

\* The `questions` argument as a prepareQuestionsForMode call leaves it.  The
\* question shuffle works on the copy [...questions]; the option arrays of
\* the question objects are handed to shuffleArray themselves, question
\* qs[k] with the draws of the place it was shuffled to.
prepareQuestionsForModeArgument(qs, m, d) ==
    IF m = "test-difficult"
    THEN LET processedQuestions == shuffleQuestions(qs, d.q)
             PlaceOf(k) == CHOOSE p \in 1..Len(qs) :
                               processedQuestions[p].questionnumber = qs[k].questionnumber
         IN  [k \in 1..Len(qs) |->
                 [qs[k] EXCEPT !.options = shuffleArray(qs[k].options, d.o[PlaceOf(k)]).array]]
    ELSE qs

(***************************************************************************)
(* utils/scoringUtils.js                                                   *)
(***************************************************************************)

\* every element goes to the front: the copy is not sorted
InsertUnsorted(x, s) == <<x>> \o s

\* [...arr].sort(): insertion into code-unit order
RECURSIVE InsertSorted(_, _)
InsertSorted(x, s) ==
    IF s = <<>> THEN <<x>>
    ELSE IF CharCode(x) < CharCode(Head(s)) THEN <<x>> \o s
    ELSE <<Head(s)>> \o InsertSorted(x, Tail(s))

RECURSIVE Sort(_)
Sort(s) == IF s = <<>> THEN <<>> ELSE InsertSorted(Head(s), Sort(Tail(s)))

\* arr.sort() on the array itself, without the copy
SortInPlace(arr) == [array |-> Sort(arr), sorted |-> Sort(arr)]

\* [...arr].sort(): `array` is arr as the statement leaves it, `sorted` the
\* sorted copy.
SortCopy(arr) == [array |-> arr, sorted |-> Sort(arr)]

\* arr1 as an arraysEqual(arr1, arr2) call leaves it: the sort is reached
\* only when the lengths agree.
arraysEqualArgument(arr1, arr2) ==
    IF Len(arr1) # Len(arr2) THEN arr1
    ELSE SortCopy(arr1).array

\* Both arguments are arrays in every call of the model, so the guards
\* against null and non-array arguments never apply.
arraysEqual(arr1, arr2) ==
    IF Len(arr1) # Len(arr2) THEN FALSE
    ELSE LET sorted1 == Sort(arr1)
             sorted2 == Sort(arr2)
         IN  \A index \in DOMAIN sorted1 : sorted1[index] = sorted2[index]

\* question.options.filter(option => option.iscorrect)
RECURSIVE FilterCorrect(_)
FilterCorrect(options) ==
    IF options = <<>> THEN <<>>
    ELSE IF Head(options).iscorrect THEN <<Head(options)>> \o FilterCorrect(Tail(options))
    ELSE FilterCorrect(Tail(options))

getCorrectOptions(question) ==
    LET correct == FilterCorrect(question.options)
    IN  [k \in DOMAIN correct |-> correct[k].optionnumber]

validateAnswer(selectedOptions, question) ==
    arraysEqual(selectedOptions, getCorrectOptions(question))

\* a single correct option already makes the question multiple choice
isMultipleChoiceAtLeastOne(question) ==
    LET correctCount == Len(FilterCorrect(question.options))
    IN  correctCount >= 1

isMultipleChoice(question) ==
    LET correctCount == Len(FilterCorrect(question.options))
    IN  correctCount > 1

calculateQuestionScore(selectedOptions, question) ==
    LET isCorrect == validateAnswer(selectedOptions, question)
    IN  [points |-> IF isCorrect THEN 1 ELSE 0, isCorrect |-> isCorrect, maxPoints |-> 1]

(***************************************************************************)
(* IEEE 754 double arithmetic, as `(correctCount / totalQuestions) * 100`  *)
(* and Math.round use it.  A positive double is [m, f]: m its 53-bit       *)
(* significand, most significant bit first, and f the number of those      *)
(* bits after the binary point, so that its value is m / 2^f.              *)
(***************************************************************************)
SignificandBits == 53

DblZero == [m |-> <<>>, f |-> 0]

RECURSIVE BitsToInt(_)
BitsToInt(bits) ==
    IF bits = <<>> THEN 0
    ELSE 2 * BitsToInt(SubSeq(bits, 1, Len(bits) - 1)) + bits[Len(bits)]

RECURSIVE IntToBits(_)
IntToBits(n) == IF n = 0 THEN <<>> ELSE Append(IntToBits(n \div 2), n % 2)

\* bits + 1; an all-ones input gains a leading bit
RECURSIVE Increment(_)
Increment(bits) ==
    IF bits = <<>> THEN <<1>>
    ELSE IF bits[Len(bits)] = 0 THEN [bits EXCEPT ![Len(bits)] = 1]
    ELSE Append(Increment(SubSeq(bits, 1, Len(bits) - 1)), 0)

\* Round the exact value bits / 2^f (bits without leading zeros, at least
\* 54 of them, or fewer when `sticky` is false and the value is exact) to a
\* double: round to nearest, ties to even.
RoundToDouble(bits, f, sticky) ==
    IF Len(bits) <= SignificandBits
    THEN [m |-> bits \o [k \in 1..(SignificandBits - Len(bits)) |-> 0],
          f |-> f + (SignificandBits - Len(bits))]
    ELSE LET dropped == Len(bits) - SignificandBits
             kept == SubSeq(bits, 1, SignificandBits)
             guard == bits[SignificandBits + 1]
             rest == sticky \/ \E k \in (SignificandBits + 2)..Len(bits) : bits[k] = 1
             up == guard = 1 /\ (rest \/ kept[SignificandBits] = 1)
             rounded == IF up THEN Increment(kept) ELSE kept
         IN  IF Len(rounded) > SignificandBits
             THEN [m |-> SubSeq(rounded, 1, SignificandBits), f |-> (f - dropped) - 1]
             ELSE [m |-> rounded, f |-> f - dropped]

\* Binary long division of r / t continued until 54 significant bits are
\* known; `bits` are the significant bits so far, f of them fractional.
RECURSIVE DivBits(_, _, _, _)
DivBits(r, t, bits, f) ==
    IF Len(bits) > SignificandBits THEN RoundToDouble(bits, f, r # 0)
    ELSE LET b == (2 * r) \div t
             newBits == IF bits = <<>> /\ b = 0 THEN <<>> ELSE Append(bits, b)
         IN  DivBits((2 * r) % t, t, newBits, f + 1)

\* The double c / t for integers c >= 0, t > 0
NumDiv(c, t) ==
    IF c = 0 THEN DblZero ELSE DivBits(c % t, t, IntToBits(c \div t), 0)

\* bits * n for a small n >= 1, least significant bit first
RECURSIVE MulSmallRev(_, _, _)
MulSmallRev(revBits, n, carry) ==
    IF revBits = <<>> THEN IF carry = 0 THEN <<>> ELSE <<carry % 2>> \o MulSmallRev(<<>>, n, carry \div 2)
    ELSE LET v == Head(revBits) * n + carry
         IN  <<v % 2>> \o MulSmallRev(Tail(revBits), n, v \div 2)

Reverse(s) == [k \in 1..Len(s) |-> s[Len(s) + 1 - k]]

\* The double d * n for an integer n >= 1
NumMul(d, n) ==
    IF d = DblZero THEN DblZero
    ELSE RoundToDouble(Reverse(MulSmallRev(Reverse(d.m), n, 0)), d.f, FALSE)

\* Math.round(d): the nearest integer, a half going up
MathRound(d) ==
    IF d = DblZero THEN 0
    ELSE IF d.f <= 0 THEN BitsToInt(d.m \o [k \in 1..(0 - d.f) |-> 0])
    ELSE LET intLen == SignificandBits - d.f
             intPart == IF intLen >= 1 THEN BitsToInt(SubSeq(d.m, 1, intLen)) ELSE 0
             half == IF intLen >= 0 THEN d.m[intLen + 1] ELSE 0
         IN  intPart + half

\* scoringUtils.js line 96
Percentage(correctCount, totalQuestions) ==
    IF totalQuestions > 0 THEN MathRound(NumMul(NumDiv(correctCount, totalQuestions), 100))
    ELSE 0

RECURSIVE ScoreLoop(_, _, _, _)

\* a loop that skips the questions without an answer
ScoreLoopSkipUnanswered(userAnswers, qs, index, acc) ==
    IF index >= Len(qs) THEN acc
    ELSE IF At(userAnswers, index) = Null THEN ScoreLoop(userAnswers, qs, index + 1, acc)
    ELSE LET question == qs[index + 1]
             selectedOptions == At(userAnswers, index).selectedOptions
             questionScore == calculateQuestionScore(selectedOptions, question)
             entry == [questionIndex |-> index,
                       points |-> questionScore.points,
                       isCorrect |-> questionScore.isCorrect,
                       maxPoints |-> questionScore.maxPoints,
                       selectedOptions |-> selectedOptions,
                       correctOptions |-> getCorrectOptions(question)]
         IN  ScoreLoop(userAnswers, qs, index + 1,
                       [correctCount |-> IF questionScore.isCorrect
                                         THEN acc.correctCount + 1 ELSE acc.correctCount,
                        questionScores |-> Append(acc.questionScores, entry)])

\* The forEach loop of calculateTotalScore from 0-based `index` on
ScoreLoop(userAnswers, qs, index, acc) ==
    IF index >= Len(qs) THEN acc
    ELSE LET question == qs[index + 1]
             userAnswer == At(userAnswers, index)
             selectedOptions == IF userAnswer # Null THEN userAnswer.selectedOptions ELSE <<>>
             questionScore == calculateQuestionScore(selectedOptions, question)
             entry == [questionIndex |-> index,
                       points |-> questionScore.points,
                       isCorrect |-> questionScore.isCorrect,
                       maxPoints |-> questionScore.maxPoints,
                       selectedOptions |-> selectedOptions,
                       correctOptions |-> getCorrectOptions(question)]
         IN  ScoreLoop(userAnswers, qs, index + 1,
                       [correctCount |-> IF questionScore.isCorrect
                                         THEN acc.correctCount + 1 ELSE acc.correctCount,
                        questionScores |-> Append(acc.questionScores, entry)])

PassingPercentage == 70

\* The arguments as a calculateTotalScore call leaves them.  The selection of
\* each answered question is handed to arraysEqual; the questions and their
\* options are only read (filter and map build new arrays).
calculateTotalScoreArguments(userAnswers, qs) ==
    [userAnswers |->
        [k \in DOMAIN userAnswers |->
            IF k <= Len(qs) /\ userAnswers[k] # Null
            THEN [userAnswers[k] EXCEPT !.selectedOptions =
                      arraysEqualArgument(@, getCorrectOptions(qs[k]))]
            ELSE userAnswers[k]],
     questions |-> qs]

\* a percentage equal to the threshold does not pass
calculateTotalScoreStrictThreshold(userAnswers, qs) ==
    LET totalQuestions == Len(qs)
        acc == ScoreLoop(userAnswers, qs, 0, [correctCount |-> 0, questionScores |-> <<>>])
        percentage == Percentage(acc.correctCount, totalQuestions)
    IN  [correct |-> acc.correctCount,
         total |-> totalQuestions,
         percentage |-> percentage,
         questionScores |-> acc.questionScores,
         passed |-> percentage > PassingPercentage]

calculateTotalScore(userAnswers, qs) ==
    LET totalQuestions == Len(qs)
        acc == ScoreLoop(userAnswers, qs, 0, [correctCount |-> 0, questionScores |-> <<>>])
        percentage == Percentage(acc.correctCount, totalQuestions)
    IN  [correct |-> acc.correctCount,
         total |-> totalQuestions,
         percentage |-> percentage,
         questionScores |-> acc.questionScores,
         passed |-> percentage >= PassingPercentage]

(***************************************************************************)
(* utils/quizLogic.js                                                      *)
(***************************************************************************)

\* the feedback is visible from the start in every mode
createInitialQuizStateShowFeedback(qs, assignment, m, t) ==
    [assignment |-> assignment,
     mode |-> m,
     questions |-> qs,
     currentQuestionIndex |-> 0,
     userAnswers |-> [k \in 1..Len(qs) |-> Null],
     startTime |-> t,
     endTime |-> NullTime,
     isComplete |-> FALSE,
     showFeedback |-> TRUE]

\* `t` is the value of `new Date()` at the call.
createInitialQuizState(qs, assignment, m, t) ==
    [assignment |-> assignment,
     mode |-> m,
     questions |-> qs,
     currentQuestionIndex |-> 0,
     userAnswers |-> [k \in 1..Len(qs) |-> Null],
     startTime |-> t,
     endTime |-> NullTime,
     isComplete |-> FALSE,
     showFeedback |-> (m = "learn")]

\* newUserAnswers[questionIndex] = ...: an index equal to the length
\* appends (questionIndex is never beyond that in the model).
SetAt(arr, index, value) ==
    IF index + 1 <= Len(arr) THEN [arr EXCEPT ![index + 1] = value]
    ELSE Append(arr, value)

\* recording an answer also reveals the feedback
updateQuizStateWithAnswerReveal(qz, questionIndex, selectedOptions, t) ==
    LET newUserAnswers ==
            SetAt(qz.userAnswers, questionIndex,
                  [selectedOptions |-> selectedOptions, timestamp |-> t])
    IN  [qz EXCEPT !.userAnswers = newUserAnswers, !.showFeedback = TRUE]

updateQuizStateWithAnswer(qz, questionIndex, selectedOptions, t) ==
    LET newUserAnswers ==
            SetAt(qz.userAnswers, questionIndex,
                  [selectedOptions |-> selectedOptions, timestamp |-> t])
    IN  [qz EXCEPT !.userAnswers = newUserAnswers]

\* the feedback flag is cleared in every mode
navigateToNextQuestionHideFeedback(qz, t) ==
    LET nextIndex == qz.currentQuestionIndex + 1
        isComplete == nextIndex >= Len(qz.questions)
    IN  [qz EXCEPT !.currentQuestionIndex = nextIndex,
                   !.isComplete = isComplete,
                   !.endTime = IF isComplete THEN t ELSE qz.endTime,
                   !.showFeedback = FALSE]

\* completion tested with > instead of >=
navigateToNextQuestionLate(qz, t) ==
    LET nextIndex == qz.currentQuestionIndex + 1
        isComplete == nextIndex > Len(qz.questions)
    IN  [qz EXCEPT !.currentQuestionIndex = nextIndex,
                   !.isComplete = isComplete,
                   !.endTime = IF isComplete THEN t ELSE qz.endTime,
                   !.showFeedback = (qz.mode = "learn")]

navigateToNextQuestion(qz, t) ==
    LET nextIndex == qz.currentQuestionIndex + 1
        isComplete == nextIndex >= Len(qz.questions)
    IN  [qz EXCEPT !.currentQuestionIndex = nextIndex,
                   !.isComplete = isComplete,
                   !.endTime = IF isComplete THEN t ELSE qz.endTime,
                   !.showFeedback = (qz.mode = "learn")]

Max(a, b) == IF a >= b THEN a ELSE b

\* the feedback flag is cleared in every mode
navigateToPreviousQuestionHideFeedback(qz) ==
    LET prevIndex == Max(0, qz.currentQuestionIndex - 1)
    IN  [qz EXCEPT !.currentQuestionIndex = prevIndex,
                   !.showFeedback = FALSE]

\* the index is decremented without the floor at 0
navigateToPreviousQuestionNoFloor(qz) ==
    LET prevIndex == qz.currentQuestionIndex - 1
    IN  [qz EXCEPT !.currentQuestionIndex = prevIndex,
                   !.showFeedback = (qz.mode = "learn")]

\* going back clears the answer of the question that is left
navigateToPreviousQuestionClearAnswer(qz) ==
    LET prevIndex == Max(0, qz.currentQuestionIndex - 1)
    IN  [qz EXCEPT !.currentQuestionIndex = prevIndex,
                   !.showFeedback = (qz.mode = "learn"),
                   !.userAnswers = SetAt(qz.userAnswers, qz.currentQuestionIndex, Null)]

navigateToPreviousQuestion(qz) ==
    LET prevIndex == Max(0, qz.currentQuestionIndex - 1)
    IN  [qz EXCEPT !.currentQuestionIndex = prevIndex,
                   !.showFeedback = (qz.mode = "learn")]

showQuestionFeedback(qz) == [qz EXCEPT !.showFeedback = TRUE]

\* an answer counts as given even when its selection is empty
isCurrentQuestionAnsweredAnySelection(qz) ==
    LET currentAnswer == At(qz.userAnswers, qz.currentQuestionIndex)
    IN  currentAnswer # Null

isCurrentQuestionAnswered(qz) ==
    LET currentAnswer == At(qz.userAnswers, qz.currentQuestionIndex)
    IN  currentAnswer # Null /\ Len(currentAnswer.selectedOptions) > 0

getCurrentQuestion(qz) ==
    IF qz.isComplete \/ qz.currentQuestionIndex >= Len(qz.questions) THEN Null
    ELSE qz.questions[qz.currentQuestionIndex + 1]

getCurrentQuestionAnswer(qz) ==
    LET currentAnswer == At(qz.userAnswers, qz.currentQuestionIndex)
    IN  IF currentAnswer # Null THEN currentAnswer.selectedOptions ELSE <<>>

\* Math.floor((endTime - startTime) / 1000), endTime || new Date()
calculateTimeElapsed(qz, t) ==
    LET endTime == IF qz.endTime # NullTime THEN qz.endTime ELSE t
    IN  (endTime - qz.startTime) \div 1000

(***************************************************************************)
(* The quiz page and the QuizInterface component                           *)
(***************************************************************************)

\* The questions of the assignment as the question store returns them:
\* single-answer, multi-answer and no-correct-option questions in turn.
BankQuestion(n) ==
    CASE n % 3 = 1 -> Question(n, <<Option("A", TRUE), Option("B", FALSE)>>)
      [] n % 3 = 2 -> Question(n, <<Option("A", TRUE), Option("B", TRUE)>>)
      [] n % 3 = 0 -> Question(n, <<Option("A", FALSE), Option("B", FALSE)>>)

assignmentQuestions == [n \in 1..NumQuestions |-> BankQuestion(n)]

assignmentId == "1"

\* QuizPage: loadAndPrepareQuestions, once the route parameters are valid
loadAndPrepareQuestions ==
    /\ questions = NoQuestions
    /\ \E d \in PrepareDraws(assignmentQuestions, mode) :
          /\ questions' = prepareQuestionsForMode(assignmentQuestions, mode, d)
          /\ draws' = draws + DrawCount(d)
    /\ UNCHANGED <<mode, quizState, completionData, now, args, result>>

\* QuizInterface: the effect that initializes the quiz state on mount
InitializeQuiz ==
    /\ questions # NoQuestions
    /\ Len(questions) > 0
    /\ quizState = Null
    /\ quizState' = createInitialQuizState(questions, assignmentId, mode, now)
    /\ UNCHANGED <<mode, questions, completionData, now, draws, args, result>>

\* The quiz screen (question card and navigation controls) is rendered
QuizScreen == quizState # Null /\ ~(quizState.isComplete /\ completionData # Null)

canGoNext == quizState.mode = "learn" \/ isCurrentQuestionAnswered(quizState)

canGoPrevious == quizState.currentQuestionIndex > 0

\* the card is never disabled
CardNeverDisabled == FALSE

\* the card is disabled whenever the feedback is shown, also in learn mode
CardDisabledWheneverFeedback == quizState.showFeedback

CardDisabled == quizState.mode # "learn" /\ quizState.showFeedback

\* QuizInterface.handleAnswerSelect
handleAnswerSelect(selectedOptions) ==
    /\ quizState' = updateQuizStateWithAnswer(quizState, quizState.currentQuestionIndex,
                                              selectedOptions, now)
    /\ UNCHANGED <<mode, questions, completionData, now, draws, args, result>>

\* QuestionCard.handleAnswerSelect: a click on option `optionNumber`
SelectOption(optionNumber) ==
    /\ QuizScreen
    /\ getCurrentQuestion(quizState) # Null
    /\ ~CardDisabled
    /\ LET question == getCurrentQuestion(quizState)
           selectedAnswers == getCurrentQuestionAnswer(quizState)
           newSelectedAnswers ==
               IF isMultipleChoice(question)
               THEN IF optionNumber \in Range(selectedAnswers)
                    THEN SelectSeq(selectedAnswers, LAMBDA ans : ans # optionNumber)
                    ELSE Append(selectedAnswers, optionNumber)
               ELSE <<optionNumber>>
       IN  handleAnswerSelect(newSelectedAnswers)

\* QuizInterface.handleQuizComplete, with the page's onComplete (a log line)
handleQuizComplete(nextState) ==
    completionData' = [quizState |-> nextState,
                       timeElapsed |-> calculateTimeElapsed(nextState, now)]

\* ResultsScreen: the results are shown, with the score its mount effect
\* computes from the quizState prop
ResultsShown == quizState # Null /\ quizState.isComplete /\ completionData # Null

ResultsScreenScore ==
    calculateTotalScore(completionData.quizState.userAnswers,
                        completionData.quizState.questions)

\* the reveal branch is taken whenever the question is answered, also when
\* the feedback is already shown
HandleNextAlwaysReveal ==
    /\ QuizScreen
    /\ canGoNext
    /\ IF quizState.mode # "learn" /\ isCurrentQuestionAnswered(quizState)
       THEN /\ quizState' = showQuestionFeedback(quizState)
            /\ UNCHANGED completionData
       ELSE LET nextState == navigateToNextQuestion(quizState, now)
            IN  /\ quizState' = nextState
                /\ IF nextState.isComplete THEN handleQuizComplete(nextState)
                   ELSE UNCHANGED completionData
    /\ UNCHANGED <<mode, questions, now, draws, args, result>>

\* handleNext without the reveal-first branch
HandleNextNoReveal ==
    /\ QuizScreen
    /\ canGoNext
    /\ LET nextState == navigateToNextQuestion(quizState, now)
       IN  /\ quizState' = nextState
           /\ IF nextState.isComplete THEN handleQuizComplete(nextState)
              ELSE UNCHANGED completionData
    /\ UNCHANGED <<mode, questions, now, draws, args, result>>

\* QuizInterface.handleNext, behind the Next button
HandleNext ==
    /\ QuizScreen
    /\ canGoNext
    /\ IF quizState.mode # "learn" /\ ~quizState.showFeedback
          /\ isCurrentQuestionAnswered(quizState)
       THEN /\ quizState' = showQuestionFeedback(quizState)
            /\ UNCHANGED completionData
       ELSE LET nextState == navigateToNextQuestion(quizState, now)
            IN  /\ quizState' = nextState
                /\ IF nextState.isComplete THEN handleQuizComplete(nextState)
                   ELSE UNCHANGED completionData
    /\ UNCHANGED <<mode, questions, now, draws, args, result>>

\* QuizInterface.handlePrevious, behind the Previous button
HandlePrevious ==
    /\ QuizScreen
    /\ canGoPrevious
    /\ quizState' = navigateToPreviousQuestion(quizState)
    /\ UNCHANGED <<mode, questions, completionData, now, draws, args, result>>

\* QuizInterface.handleSkip, behind the Skip button of learn mode
HandleSkip ==
    /\ QuizScreen
    /\ quizState.mode = "learn"
    /\ LET nextState == navigateToNextQuestion(quizState, now)
       IN  /\ quizState' = nextState
           /\ IF nextState.isComplete THEN handleQuizComplete(nextState)
              ELSE UNCHANGED completionData
    /\ UNCHANGED <<mode, questions, now, draws, args, result>>

\* QuizInterface.handleRetakeQuiz, behind the Retake button of the results
HandleRetakeQuiz ==
    /\ quizState # Null
    /\ quizState.isComplete /\ completionData # Null
    /\ quizState' = createInitialQuizState(questions, assignmentId, mode, now)
    /\ completionData' = Null
    /\ UNCHANGED <<mode, questions, now, draws, args, result>>

\* The wall clock advances; `now` counts from the mount of the quiz
Tick ==
    /\ quizState # Null
    /\ now < MaxClock * TickMs
    /\ now' = now + TickMs
    /\ UNCHANGED <<mode, questions, quizState, completionData, draws, args, result>>

Init ==
    /\ mode \in Modes
    /\ questions = NoQuestions
    /\ quizState = Null
    /\ completionData = Null
    /\ now = 0
    /\ draws = 0
    /\ args = Null
    /\ result = Null

Next ==
    \/ loadAndPrepareQuestions
    \/ InitializeQuiz
    \/ \E optionNumber \in {OptionIds[k] : k \in 1..2} : SelectOption(optionNumber)
    \/ HandleSkip
    \/ HandleNext
    \/ HandlePrevious
    \/ HandleRetakeQuiz
    \/ Tick

Spec == Init /\ [][Next]_vars

\* A user who answers the current question whenever it has no answer and
\* presses Next, and never Previous, Skip or Retake
SelectWhenUnanswered(optionNumber) ==
    /\ quizState # Null
    /\ ~isCurrentQuestionAnswered(quizState)
    /\ SelectOption(optionNumber)

NextFinish ==
    \/ loadAndPrepareQuestions
    \/ InitializeQuiz
    \/ \E optionNumber \in {OptionIds[k] : k \in 1..2} : SelectWhenUnanswered(optionNumber)
    \/ HandleNext
    \/ Tick

SpecFinish ==
    /\ Init
    /\ [][NextFinish]_vars
    /\ WF_vars(\E optionNumber \in {OptionIds[k] : k \in 1..2} : SelectWhenUnanswered(optionNumber))
    /\ WF_vars(HandleNext)

(***************************************************************************)
(* The session functions of quizLogic.js called directly, in any order     *)
(***************************************************************************)
ApiSelections == {<<>>, <<"A">>, <<"A", "B">>}

ApiUpdateAnswer(questionIndex, selectedOptions) ==
    /\ quizState' = updateQuizStateWithAnswer(quizState, questionIndex, selectedOptions, now)
    /\ UNCHANGED <<mode, questions, completionData, now, draws, args, result>>

ApiNext ==
    /\ quizState.currentQuestionIndex < Len(quizState.questions) + MaxOvershoot
    /\ quizState' = navigateToNextQuestion(quizState, now)
    /\ UNCHANGED <<mode, questions, completionData, now, draws, args, result>>

ApiPrevious ==
    /\ quizState' = navigateToPreviousQuestion(quizState)
    /\ UNCHANGED <<mode, questions, completionData, now, draws, args, result>>

ApiShowFeedback ==
    /\ quizState' = showQuestionFeedback(quizState)
    /\ UNCHANGED <<mode, questions, completionData, now, draws, args, result>>

InitApi ==
    /\ mode \in Modes
    /\ questions = assignmentQuestions
    /\ quizState = createInitialQuizState(questions, assignmentId, mode, 0)
    /\ completionData = Null
    /\ now = 0
    /\ draws = 0
    /\ args = Null
    /\ result = Null

NextApi ==
    \/ \E questionIndex \in 0..(NumQuestions - 1), selectedOptions \in ApiSelections :
          ApiUpdateAnswer(questionIndex, selectedOptions)
    \/ ApiNext
    \/ ApiPrevious
    \/ ApiShowFeedback
    \/ Tick

SpecApi == InitApi /\ [][NextApi]_vars

(***************************************************************************)
(* The pure functions applied to bounded inputs                            *)
(***************************************************************************)
NoSession ==
    /\ mode = NoMode
    /\ questions = NoQuestions
    /\ quizState = Null
    /\ completionData = Null
    /\ now = 0
    /\ draws = 0

IdSet(n) == {OptionIds[k] : k \in 1..n}

\* Option lists over the identifiers ids, each identifier at most once
OptionLists(ids, n) ==
    UNION {{[k \in 1..Len(order) |-> Option(order[k], flags[k])] :
                flags \in [1..Len(order) -> BOOLEAN]} :
           order \in DistinctSeqs(ids, n)}

ValidatorQuestions == {Question(1, opts) : opts \in OptionLists(IdSet(MaxOptions), MaxOptions)}

InitValidate ==
    /\ NoSession
    /\ args \in [fn : {"validateAnswer"},
                 selectedOptions : DistinctSeqs(IdSet(MaxOptions), MaxOptions),
                 question : ValidatorQuestions]
    /\ result = Null

CallValidateAnswer ==
    /\ result = Null
    /\ result' = [returned |-> validateAnswer(args.selectedOptions, args.question)]
    /\ UNCHANGED <<mode, questions, quizState, completionData, now, draws, args>>

SpecValidate == InitValidate /\ [][CallValidateAnswer]_vars

\* Selections that may name an identifier more than once
InitValidateAny ==
    /\ NoSession
    /\ args \in [fn : {"validateAnswer"},
                 selectedOptions : SeqsUpTo(IdSet(MaxOptions), MaxOptions),
                 question : ValidatorQuestions]
    /\ result = Null

SpecValidateAny == InitValidateAny /\ [][CallValidateAnswer]_vars

\* Questions whose options are a prefix of A, B with any correctness flags
ScoreQuestions ==
    {Question(1, [k \in 1..n |-> Option(OptionIds[k], flags[k])]) :
        n \in 0..2, flags \in [1..2 -> BOOLEAN]}

ScoreAnswers ==
    {Null} \cup {[selectedOptions |-> sel, timestamp |-> 0] : sel \in DistinctSeqs(IdSet(2), 2)}

InitScore ==
    /\ NoSession
    /\ \E qs \in SeqsUpTo(ScoreQuestions, MaxScoreQuestions) :
          args \in [fn : {"calculateTotalScore"},
                    userAnswers : [1..Len(qs) -> ScoreAnswers],
                    questions : {qs}]
    /\ result = Null

CallCalculateTotalScore ==
    /\ result = Null
    /\ result' = [returned |-> calculateTotalScore(args.userAnswers, args.questions)]
    /\ UNCHANGED <<mode, questions, quizState, completionData, now, draws, args>>

SpecScore == InitScore /\ [][CallCalculateTotalScore]_vars

\* calculateTotalScore called once and then again on the same objects.
\* `given` keeps the arguments as they were before the first call and
\* `previous` the result of the call before.
CallCalculateTotalScoreAgain ==
    /\ IF result = Null THEN TRUE ELSE result.calls < MaxCalls
    /\ LET after == calculateTotalScoreArguments(args.userAnswers, args.questions)
       IN  /\ result' = [returned |-> calculateTotalScore(args.userAnswers, args.questions),
                         calls |-> IF result = Null THEN 1 ELSE result.calls + 1,
                         previous |-> IF result = Null THEN Null ELSE result.returned,
                         given |-> IF result = Null THEN args ELSE result.given]
           /\ args' = [args EXCEPT !.userAnswers = after.userAnswers,
                                   !.questions = after.questions]
    /\ UNCHANGED <<mode, questions, quizState, completionData, now, draws>>

SpecScoreAgain == InitScore /\ [][CallCalculateTotalScoreAgain]_vars

\* `total` single-answer questions of which the first `correct` are
\* answered with the correct option and the others with a wrong one
InitPercentage ==
    /\ NoSession
    /\ \E total \in 0..MaxTotal : \E correct \in 0..total :
          args = [fn |-> "calculateTotalScore",
                  userAnswers |-> [k \in 1..total |->
                      [selectedOptions |-> IF k <= correct THEN <<"A">> ELSE <<"B">>,
                       timestamp |-> 0]],
                  questions |-> [k \in 1..total |-> BankQuestion(1)]]
    /\ result = Null

SpecPercentage == InitPercentage /\ [][CallCalculateTotalScore]_vars

ShuffleElements == {1, 2, 3}

InitShuffle ==
    /\ NoSession
    /\ args \in [fn : {"shuffleArray"}, array : SeqsUpTo(ShuffleElements, MaxLen)]
    /\ result = Null

CallShuffleArray ==
    /\ result = Null
    /\ \E js \in DrawSeqs(Len(args.array)) :
          LET call == shuffleArray(args.array, js)
          IN  /\ result' = [returned |-> call.shuffled, drawn |-> js]
              /\ args' = [args EXCEPT !.array = call.array]
    /\ UNCHANGED <<mode, questions, quizState, completionData, now, draws>>

SpecShuffle == InitShuffle /\ [][CallShuffleArray]_vars

\* Option lists of the questions given to prepareQuestionsForMode.  `given`
\* in the result of a call is the `questions` argument as it was passed.
PrepareOptionLists ==
    {<<>>,
     <<Option("A", TRUE), Option("B", FALSE)>>,
     <<Option("A", TRUE), Option("B", TRUE)>>,
     <<Option("A", TRUE), Option("B", FALSE), Option("C", FALSE)>>,
     <<Option("A", TRUE), Option("B", TRUE), Option("C", FALSE)>>,
     <<Option("A", FALSE), Option("B", FALSE), Option("C", FALSE)>>}

\* Question lists with the question numbers 1..n
PrepareQuestionLists ==
    UNION {{[k \in 1..n |-> Question(k, opts[k])] : opts \in [1..n -> PrepareOptionLists]} :
           n \in 0..MaxPrepareQuestions}

PrepareModes == Modes \cup {"unknown-mode"}

InitPrepare ==
    /\ NoSession
    /\ args \in [fn : {"prepareQuestionsForMode"},
                 questions : PrepareQuestionLists,
                 mode : PrepareModes]
    /\ result = Null

CallPrepareQuestionsForMode ==
    /\ result = Null
    /\ \E d \in PrepareDraws(args.questions, args.mode) :
          /\ result' = [returned |-> prepareQuestionsForMode(args.questions, args.mode, d),
                        ref |-> prepareQuestionsForModeRef(args.questions, args.mode),
                        drawn |-> DrawCount(d),
                        given |-> args.questions]
          /\ args' = [args EXCEPT !.questions =
                          prepareQuestionsForModeArgument(args.questions, args.mode, d)]
    /\ UNCHANGED <<mode, questions, quizState, completionData, now, draws>>

SpecPrepare == InitPrepare /\ [][CallPrepareQuestionsForMode]_vars

(***************************************************************************)
(* Properties                                                              *)
(***************************************************************************)
Answered(qz, index) ==
    At(qz.userAnswers, index) # Null /\ Len(At(qz.userAnswers, index).selectedOptions) > 0

CorrectSet(question) ==
    {question.options[k].optionnumber :
        k \in {n \in DOMAIN question.options : question.options[n].iscorrect}}

\* C1: in a test mode, Next on an answered question whose feedback is hidden
\* only reveals the feedback (index, answers and completion flag stay), and
\* the Next that follows moves on by exactly one question and hides the
\* feedback again.
C1_TwoStepAdvance ==
    [][(HandleNext /\ quizState.mode # "learn") =>
          IF ~quizState.showFeedback /\ Answered(quizState, quizState.currentQuestionIndex)
          THEN /\ quizState'.showFeedback
               /\ quizState'.currentQuestionIndex = quizState.currentQuestionIndex
               /\ quizState'.userAnswers = quizState.userAnswers
               /\ quizState'.isComplete = quizState.isComplete
          ELSE quizState.showFeedback =>
                  /\ quizState'.currentQuestionIndex = quizState.currentQuestionIndex + 1
                  /\ ~quizState'.showFeedback]_vars

C1_Witness ==
    /\ quizState # Null
    /\ quizState.mode # "learn"
    /\ quizState.currentQuestionIndex = 1
    /\ ~quizState.showFeedback
    /\ ~quizState.isComplete
    /\ Answered(quizState, 0)

\* C2: in a test mode driven by option clicks, Next and Previous, feedback
\* is visible only while the current question has a non-empty answer.
C2_NoRevealBeforeAnswer ==
    (quizState # Null /\ quizState.mode # "learn" /\ quizState.showFeedback)
        => Answered(quizState, quizState.currentQuestionIndex)

C2_Witness ==
    /\ quizState # Null
    /\ quizState.mode = "test-difficult"
    /\ quizState.showFeedback
    /\ isMultipleChoice(quizState.questions[quizState.currentQuestionIndex + 1])

\* C3: a Next or Skip that moves the index off the last question completes
\* the session (index = total, isComplete, endTime stamped); one that moves
\* it off an earlier question leaves it in progress with endTime null.
C3_Completion ==
    [][((HandleNext \/ HandleSkip)
          /\ quizState'.currentQuestionIndex = quizState.currentQuestionIndex + 1) =>
          IF quizState.currentQuestionIndex = Len(quizState.questions) - 1
          THEN /\ quizState'.currentQuestionIndex = Len(quizState.questions)
               /\ quizState'.isComplete
               /\ quizState'.endTime # NullTime
          ELSE /\ ~quizState'.isComplete
               /\ quizState'.endTime = NullTime]_vars

C3_Witness ==
    /\ quizState # Null
    /\ quizState.isComplete
    /\ quizState.currentQuestionIndex = Len(quizState.questions)
    /\ quizState.endTime # NullTime
    /\ completionData # Null

\* C4: once a session is complete, no session function changes its answers,
\* index, feedback flag, completion flag or end time.
C4_CompleteNeverMutated ==
    [][quizState.isComplete =>
          /\ quizState'.userAnswers = quizState.userAnswers
          /\ quizState'.currentQuestionIndex = quizState.currentQuestionIndex
          /\ quizState'.showFeedback = quizState.showFeedback
          /\ quizState'.isComplete = quizState.isComplete
          /\ quizState'.endTime = quizState.endTime]_vars

\* C5: for a duplicate-free selection validateAnswer is true exactly when
\* the selected identifiers and the identifiers of the correct options are
\* the same set, whatever the order of the selection and of the options.
C5_ValidateIsSetEquality ==
    (args # Null /\ args.fn = "validateAnswer" /\ result # Null) =>
        (result.returned <=> (Range(args.selectedOptions) = CorrectSet(args.question)))

C5_Witness ==
    /\ args # Null /\ args.fn = "validateAnswer" /\ result # Null
    /\ result.returned
    /\ Len(args.selectedOptions) >= 2
    /\ args.selectedOptions # getCorrectOptions(args.question)

\* C6: validateAnswer of the empty selection is false for every question,
\* also for a question without options or without a correct option.
C6_EmptySelectionNeverCorrect ==
    (args # Null /\ args.fn = "validateAnswer" /\ result # Null
        /\ args.selectedOptions = <<>>) => ~result.returned

\* C7: calculateTotalScore returns total = number of questions, one entry
\* per question in order carrying the index, the recorded selection (empty
\* when absent), the correct option identifiers and the verdict of
\* validateAnswer, and a correct count equal to the number of true verdicts.
C7_ScoreAggregation ==
    (args # Null /\ args.fn = "calculateTotalScore" /\ result # Null) =>
        LET r == result.returned
            qs == args.questions
            Selected(i) == IF args.userAnswers[i] = Null THEN <<>>
                           ELSE args.userAnswers[i].selectedOptions
        IN  /\ r.total = Len(qs)
            /\ Len(r.questionScores) = Len(qs)
            /\ \A i \in 1..Len(qs) :
                  /\ i \in DOMAIN r.questionScores
                  /\ r.questionScores[i].questionIndex = i - 1
                  /\ r.questionScores[i].selectedOptions = Selected(i)
                  /\ Range(r.questionScores[i].correctOptions) = CorrectSet(qs[i])
                  /\ Len(r.questionScores[i].correctOptions) = Cardinality(CorrectSet(qs[i]))
                  /\ r.questionScores[i].isCorrect = validateAnswer(Selected(i), qs[i])
            /\ r.correct = Cardinality({i \in DOMAIN r.questionScores :
                                            r.questionScores[i].isCorrect})

C7_Witness ==
    /\ args # Null /\ args.fn = "calculateTotalScore" /\ result # Null
    /\ Len(args.questions) = 2
    /\ args.userAnswers[1] = Null
    /\ result.returned.correct = 1
    /\ result.returned.questionScores[2].selectedOptions = <<"B", "A">>

\* C8: the percentage is correct * 100 / total rounded to the nearest
\* integer, a half going up, and 0 when there is no question.
C8_PercentageRoundsHalfUp ==
    (args # Null /\ args.fn = "calculateTotalScore" /\ result # Null) =>
        LET r == result.returned
        IN  IF r.total = 0 THEN r.percentage = 0
            ELSE r.percentage = (200 * r.correct + r.total) \div (2 * r.total)

\* C9: a retake in test-difficult mode draws a new question order and new
\* option orders.
C9_RetakeRerandomizes ==
    [][(HandleRetakeQuiz /\ mode = "test-difficult") => draws' > draws]_vars

\* C10: shuffleArray returns an array with the same elements as its
\* argument, each as often as there, leaves the argument as it was, and
\* returns an array equal to it when it has at most one element.
C10_ShufflePermutes ==
    [][CallShuffleArray =>
          /\ args'.array = args.array
          /\ Len(result'.returned) = Len(args.array)
          /\ SeqToBag(result'.returned) = SeqToBag(args.array)
          /\ (Len(args.array) <= 1 => result'.returned = args.array)]_vars

C10_Witness ==
    /\ args # Null /\ args.fn = "shuffleArray" /\ result # Null
    /\ Len(args.array) = 3
    /\ Cardinality(Range(args.array)) = 3
    /\ result.returned # args.array

\* C11: in test-difficult mode prepareQuestionsForMode returns the input
\* questions in some order, each with its own options in some order and so
\* with its own correct option identifiers, and leaves the input array, its
\* questions and their option arrays as they were.
C11_PrepareRandomized ==
    (args # Null /\ args.fn = "prepareQuestionsForMode" /\ result # Null
        /\ args.mode = "test-difficult") =>
        LET given == result.given
            returned == result.returned
            Given(num) == given[CHOOSE k \in DOMAIN given : given[k].questionnumber = num]
        IN  /\ args.questions = given
            /\ Len(returned) = Len(given)
            /\ SeqToBag([k \in DOMAIN returned |-> returned[k].questionnumber])
                  = SeqToBag([k \in DOMAIN given |-> given[k].questionnumber])
            /\ \A k \in DOMAIN returned :
                  /\ SeqToBag(returned[k].options)
                        = SeqToBag(Given(returned[k].questionnumber).options)
                  /\ CorrectSet(returned[k]) = CorrectSet(Given(returned[k].questionnumber))

C11_Witness ==
    /\ args # Null /\ args.fn = "prepareQuestionsForMode" /\ result # Null
    /\ args.mode = "test-difficult"
    /\ Len(args.questions) = 2
    /\ result.returned[1].questionnumber = 2
    /\ Len(result.returned[1].options) = 3
    /\ result.returned[1].options # args.questions[2].options

\* C12: in a learn session the feedback is visible at creation and after
\* every sequence of calls of the session functions.
C12_LearnFeedbackAlwaysVisible ==
    quizState.mode = "learn" => quizState.showFeedback

C12_Witness ==
    /\ quizState.mode = "learn"
    /\ quizState.currentQuestionIndex = 1
    /\ Answered(quizState, 0)
    /\ quizState.showFeedback
    /\ now > 0

\* C13: in a learn session in progress Next and Skip each move the index on
\* by exactly one, whether or not the current question is answered, and the
\* feedback is visible before and after.
C13_LearnSkip ==
    [][((HandleNext \/ HandleSkip) /\ quizState.mode = "learn") =>
          /\ quizState'.currentQuestionIndex = quizState.currentQuestionIndex + 1
          /\ quizState.showFeedback
          /\ quizState'.showFeedback]_vars

C13_Witness ==
    /\ quizState # Null
    /\ quizState.mode = "learn"
    /\ quizState.currentQuestionIndex = 1
    /\ ~Answered(quizState, 0)
    /\ ~quizState.isComplete
    /\ quizState.showFeedback

\* C14: after every sequence of calls of the session functions the index
\* lies between 0 and the number of questions.
C14_IndexBound ==
    /\ 0 <= quizState.currentQuestionIndex
    /\ quizState.currentQuestionIndex <= Len(quizState.questions)

\* C15: navigateToPreviousQuestion sets the index to max(0, index - 1), so
\* it stays 0 at 0 and is never negative, and sets the feedback flag to
\* (mode = learn).
C15_Retreat ==
    [][ApiPrevious =>
          /\ quizState'.currentQuestionIndex =
                IF quizState.currentQuestionIndex = 0 THEN 0
                ELSE quizState.currentQuestionIndex - 1
          /\ quizState'.currentQuestionIndex >= 0
          /\ quizState'.showFeedback = (quizState.mode = "learn")]_vars

C15_Witness ==
    /\ quizState.mode = "test-easy"
    /\ quizState.currentQuestionIndex = 0
    /\ ~quizState.showFeedback
    /\ ~quizState.isComplete
    /\ Answered(quizState, 0)
    /\ Answered(quizState, 1)

RECURSIVE RemoveRepeats(_)
RemoveRepeats(s) ==
    IF s = <<>> THEN <<>>
    ELSE LET front == RemoveRepeats(SubSeq(s, 1, Len(s) - 1))
             last == s[Len(s)]
         IN  IF last \in Range(front) THEN front ELSE Append(front, last)

\* C17: validateAnswer gives a selection with repeated identifiers the
\* result it gives the same selection without the repeats, so it is true
\* exactly when the set of selected identifiers is the correct set.
C17_DuplicatesIgnored ==
    (args # Null /\ args.fn = "validateAnswer" /\ result # Null) =>
        /\ result.returned = validateAnswer(RemoveRepeats(args.selectedOptions), args.question)
        /\ result.returned <=> (Range(args.selectedOptions) = CorrectSet(args.question))

\* C18: passed is true exactly when the percentage is at least 70: 2 of 3
\* (67) does not pass, 7 of 10 (70) passes, no question does not pass.
C18_PassThreshold ==
    (args # Null /\ args.fn = "calculateTotalScore" /\ result # Null) =>
        LET r == result.returned
        IN  /\ r.passed <=> (r.percentage >= 70)
            /\ (r.total = 3 /\ r.correct = 2) => (r.percentage = 67 /\ ~r.passed)
            /\ (r.total = 10 /\ r.correct = 7) => (r.percentage = 70 /\ r.passed)
            /\ (r.total = 0) => (r.percentage = 0 /\ ~r.passed)

C18_Witness ==
    /\ args # Null /\ args.fn = "calculateTotalScore" /\ result # Null
    /\ Len(args.questions) = 10
    /\ result.returned.correct = 7
    /\ result.returned.percentage = 70
    /\ result.returned.passed

\* C19: calculateTotalScore leaves the answers, the order of every recorded
\* selection, the questions and their option lists as they were, and a
\* second call on the same answers and questions returns what the first
\* call returned.
C19_ScoringPure ==
    (args # Null /\ args.fn = "calculateTotalScore" /\ result # Null) =>
        /\ args.userAnswers = result.given.userAnswers
        /\ args.questions = result.given.questions
        /\ (result.calls >= 2 => result.returned = result.previous)

C19_Witness ==
    /\ args # Null /\ args.fn = "calculateTotalScore" /\ result # Null
    /\ result.calls = 2
    /\ Len(args.questions) = 2
    /\ args.userAnswers[2] # Null
    /\ args.userAnswers[2].selectedOptions = <<"B", "A">>
    /\ result.returned.questionScores[2].isCorrect
    /\ result.previous.questionScores[2].selectedOptions = <<"B", "A">>

RECURSIVE Factorial(_)
Factorial(n) == IF n <= 1 THEN 1 ELSE n * Factorial(n - 1)

\* The arrangements of the elements of array
Arrangements(array) ==
    {[k \in DOMAIN array |-> array[p[k]]] : p \in {q \in [DOMAIN array -> DOMAIN array] :
                                                      \A a, b \in DOMAIN array : a # b => q[a] # q[b]}}

\* C20: on n distinct elements shuffleArray makes n - 1 draws (none for
\* n <= 1), draw k for i = n - k with j in 0..i, and the draw sequences
\* correspond one to one to the n! arrangements of the argument.
C20_ShuffleBijection ==
    (args # Null /\ args.fn = "shuffleArray" /\ result # Null
        /\ Cardinality(Range(args.array)) = Len(args.array)) =>
        LET n == Len(args.array)
            Image(js) == shuffleArray(args.array, js).shuffled
        IN  /\ Len(result.drawn) = (IF n <= 1 THEN 0 ELSE n - 1)
            /\ \A k \in DOMAIN result.drawn :
                  result.drawn[k] >= 0 /\ result.drawn[k] <= n - k
            /\ result.returned = Image(result.drawn)
            /\ Cardinality(DrawSeqs(n)) = Factorial(n)
            /\ Cardinality(Arrangements(args.array)) = Factorial(n)
            /\ \A arrangement \in Arrangements(args.array) :
                  Cardinality({js \in DrawSeqs(n) : Image(js) = arrangement}) = 1

C20_Witness ==
    /\ args # Null /\ args.fn = "shuffleArray" /\ result # Null
    /\ Len(args.array) = 3
    /\ Cardinality(Range(args.array)) = 3
    /\ result.drawn = <<2, 1>>
    /\ result.returned = args.array

\* C21: in every mode but test-difficult prepareQuestionsForMode returns a
\* new array with the input questions in the input order, their options in
\* the original order, and makes no random draw.
C21_PrepareUnshuffled ==
    (args # Null /\ args.fn = "prepareQuestionsForMode" /\ result # Null
        /\ args.mode # "test-difficult") =>
        /\ result.returned = result.given
        /\ \A k \in DOMAIN result.given :
              /\ result.returned[k].questionnumber = result.given[k].questionnumber
              /\ result.returned[k].options = result.given[k].options
        /\ args.questions = result.given
        /\ result.ref # "argument"
        /\ result.drawn = 0

C21_Witness ==
    /\ args # Null /\ args.fn = "prepareQuestionsForMode" /\ result # Null
    /\ args.mode = "unknown-mode"
    /\ Len(result.given) = 2
    /\ Len(result.given[1].options) = 3
    /\ result.returned[2].questionnumber = 2
    /\ result.drawn = 0

\* C22: the session created at the first start and at every retake has the
\* index 0, one null answer per question, isComplete false, no endTime and
\* the feedback flag equal to (mode = learn).
C22_FreshSession ==
    [][(InitializeQuiz \/ HandleRetakeQuiz) =>
          /\ quizState'.currentQuestionIndex = 0
          /\ Len(quizState'.userAnswers) = Len(questions)
          /\ \A k \in DOMAIN quizState'.userAnswers : quizState'.userAnswers[k] = Null
          /\ quizState'.questions = questions
          /\ ~quizState'.isComplete
          /\ quizState'.endTime = NullTime
          /\ quizState'.showFeedback = (mode = "learn")]_vars

C22_Witness ==
    /\ quizState # Null
    /\ quizState.mode = "test-easy"
    /\ quizState.startTime > 0
    /\ quizState.currentQuestionIndex = 0
    /\ \A k \in DOMAIN quizState.userAnswers : quizState.userAnswers[k] = Null
    /\ ~quizState.showFeedback
    /\ completionData = Null

\* C23: on a session in progress updateQuizStateWithAnswer makes the answer
\* at the given index the given selection and leaves the index, the feedback
\* flag, isComplete, endTime, the mode, the questions and every other answer
\* as they were.
C23_RecordAnswerFrame ==
    [][\A questionIndex \in 0..(NumQuestions - 1), selectedOptions \in ApiSelections :
          (ApiUpdateAnswer(questionIndex, selectedOptions) /\ ~quizState.isComplete) =>
              /\ quizState'.userAnswers[questionIndex + 1].selectedOptions = selectedOptions
              /\ Len(quizState'.userAnswers) = Len(quizState.userAnswers)
              /\ \A k \in DOMAIN quizState.userAnswers :
                    k # questionIndex + 1 => quizState'.userAnswers[k] = quizState.userAnswers[k]
              /\ quizState'.currentQuestionIndex = quizState.currentQuestionIndex
              /\ quizState'.showFeedback = quizState.showFeedback
              /\ quizState'.isComplete = quizState.isComplete
              /\ quizState'.endTime = quizState.endTime
              /\ quizState'.mode = quizState.mode
              /\ quizState'.questions = quizState.questions]_vars

C23_Witness ==
    /\ ~quizState.isComplete
    /\ quizState.currentQuestionIndex = 1
    /\ quizState.userAnswers[1] # Null
    /\ quizState.userAnswers[1].selectedOptions = <<"A", "B">>
    /\ quizState.userAnswers[1].timestamp = TickMs
    /\ quizState.userAnswers[2] # Null
    /\ quizState.userAnswers[2].timestamp = 0

\* C24: navigateToPreviousQuestion on a session at index 0 leaves the whole
\* session as it was, in every mode and whatever the feedback flag.
C24_RetreatNoOpAtZero ==
    [][(ApiPrevious /\ quizState.currentQuestionIndex = 0) => quizState' = quizState]_vars

\* C25: after every sequence of calls of the session functions isComplete
\* is true exactly when the index is at or past the number of questions, and
\* endTime is set exactly when isComplete is true.
C25_CompletionFlags ==
    /\ quizState.isComplete <=> (quizState.currentQuestionIndex >= Len(quizState.questions))
    /\ (quizState.endTime # NullTime) <=> quizState.isComplete

\* The current question is shown and its card can be clicked
CardShown == QuizScreen /\ getCurrentQuestion(quizState) # Null

\* C26: in a test mode with the feedback shown no step of the quiz screen
\* changes the recorded answers; in learn mode, and in a test mode with the
\* feedback hidden, a click on any option of the current question is
\* accepted.
C26_AnswersLocked ==
    /\ [][(CardShown /\ quizState.mode # "learn" /\ quizState.showFeedback) =>
             quizState'.userAnswers = quizState.userAnswers]_vars
    /\ [](CardShown /\ (quizState.mode = "learn" \/ ~quizState.showFeedback) =>
             \A optionNumber \in {OptionIds[k] : k \in 1..2} :
                 ENABLED SelectOption(optionNumber))
    /\ [][\A optionNumber \in {OptionIds[k] : k \in 1..2} :
             SelectOption(optionNumber) =>
                 /\ quizState.mode = "learn" \/ ~quizState.showFeedback
                 /\ quizState'.userAnswers[quizState.currentQuestionIndex + 1] # Null]_vars

C26_Witness ==
    /\ quizState # Null
    /\ quizState.mode = "test-difficult"
    /\ quizState.showFeedback
    /\ ~quizState.isComplete
    /\ quizState.currentQuestionIndex = 1
    /\ isCurrentQuestionAnswered(quizState)
    /\ now > 0

\* C27: a click on an option of a question with at most one correct option
\* makes the selection that option alone; a click on an option of a question
\* with more than one correct option removes it from the selection when it
\* is there and adds it when it is not, so that a second click restores the
\* selected set, and the selection never holds an option twice.
C27_SelectionSemantics ==
    [][\A optionNumber \in {OptionIds[k] : k \in 1..2} :
          SelectOption(optionNumber) =>
              LET question == getCurrentQuestion(quizState)
                  before == getCurrentQuestionAnswer(quizState)
                  after == getCurrentQuestionAnswer(quizState')
              IN  IF Cardinality(CorrectSet(question)) <= 1
                  THEN after = <<optionNumber>>
                  ELSE /\ Range(after) = IF optionNumber \in Range(before)
                                         THEN Range(before) \ {optionNumber}
                                         ELSE Range(before) \cup {optionNumber}
                       /\ Cardinality(Range(after)) = Len(after)]_vars

C27_Witness ==
    /\ quizState # Null
    /\ ~quizState.isComplete
    /\ getCurrentQuestion(quizState) # Null
    /\ Cardinality(CorrectSet(getCurrentQuestion(quizState))) = 2
    /\ getCurrentQuestionAnswer(quizState) = <<"B", "A">>
    /\ quizState.userAnswers[1] # Null
    /\ quizState.userAnswers[1].selectedOptions = <<"B">>

\* C28: navigateToNextQuestion, navigateToPreviousQuestion and
\* showQuestionFeedback applied to any session of the quiz, and the Next,
\* Previous and Skip buttons, leave every answer as it was, so an answer is
\* found again on return to its question, and the score of the results
\* screen is computed from the answers the session holds at completion.
C28_NavigationPreservesAnswers ==
    /\ [](quizState # Null =>
             /\ navigateToNextQuestion(quizState, now).userAnswers = quizState.userAnswers
             /\ navigateToPreviousQuestion(quizState).userAnswers = quizState.userAnswers
             /\ showQuestionFeedback(quizState).userAnswers = quizState.userAnswers)
    /\ [][(HandleNext \/ HandlePrevious \/ HandleSkip) =>
             quizState'.userAnswers = quizState.userAnswers]_vars
    /\ [](ResultsShown =>
             /\ completionData.quizState.userAnswers = quizState.userAnswers
             /\ \A k \in DOMAIN quizState.userAnswers :
                   ResultsScreenScore.questionScores[k].selectedOptions =
                       IF quizState.userAnswers[k] = Null THEN <<>>
                       ELSE quizState.userAnswers[k].selectedOptions)

C28_Witness ==
    /\ quizState # Null
    /\ quizState.mode = "test-easy"
    /\ ~quizState.isComplete
    /\ quizState.currentQuestionIndex = 0
    /\ getCurrentQuestionAnswer(quizState) = <<"B">>
    /\ Answered(quizState, 1)
    /\ ~quizState.showFeedback

\* C29: while the session is in progress calculateTimeElapsed is the clock
\* minus startTime; once the session is complete it stays complete, endTime
\* is never stamped again, and calculateTimeElapsed is endTime - startTime at
\* every later clock value and after every further call.
C29_ElapsedFreezes ==
    /\ [](~quizState.isComplete =>
             calculateTimeElapsed(quizState, now) = (now - quizState.startTime) \div 1000)
    /\ [][quizState.isComplete =>
             /\ quizState'.isComplete
             /\ quizState'.endTime = quizState.endTime
             /\ calculateTimeElapsed(quizState', now')
                   = (quizState.endTime - quizState.startTime) \div 1000]_vars

\* Next presses still needed to finish: two for each question left in a test
\* mode, one less when the feedback of the current question is shown, and
\* one for each question left in learn mode
PressesLeft ==
    LET left == Len(quizState.questions) - quizState.currentQuestionIndex
    IN  IF quizState.mode = "learn" THEN left
        ELSE IF quizState.isComplete THEN 0
        ELSE 2 * left - (IF quizState.showFeedback THEN 1 ELSE 0)

====
